---- MODULE Spec2Model ----
(***************************************************************************)
(* CDP treasury (modules/cdp-treasury/src/lib.rs): the debit pool, the     *)
(* surplus kept as the module account's stable balance, the offset of the  *)
(* two on block end, the splitting of a collateral amount into auction     *)
(* lots, and the two collateral -> stable swaps.                           *)
(*                                                                         *)
(* The ledger (T::Currency), the auction manager and the DEX are           *)
(* collaborators outside the module; they are modelled from their          *)
(* contracts and their failures are nondeterministic inputs.               *)
(***************************************************************************)
EXTENDS Integers, Sequences, FiniteSets, TLC

\* ------------------------------------------------------------- bounds
\* Largest representable Balance (stands for u128::MAX).
MaxBalance == 5
\* Collateral units of each collateral type that exist outside the treasury at genesis.
MaxCollateral == 3
\* Largest auction target passed by a caller.
MaxTarget == 3
\* Largest expected collateral auction size that is configured.
MaxSize == 2
\* Largest configured MaxAuctionsCount.
MaxCount == 3

\* ------------------------------------------------------------- domains
Accounts == {"module", "treasury", "other"}
STABLE == "AUSD"
Collaterals == {"DOT"}
Amounts == 0..MaxBalance
CollateralAmounts == 0..MaxCollateral
Targets == 0..MaxTarget
None == -1

VARIABLES
    debit_pool,         \* DebitPool storage value
    stable,             \* ledger: free balance of the stable currency per account
    collateral,         \* ledger: free balance of each collateral per holder
    auctions,           \* auction manager: currency and amount of the open collateral auctions, in creation order
    expected_size,      \* ExpectedCollateralAuctionSize storage map
    max_auctions_count, \* T::MaxAuctionsCount, fixed at build time
    panicked,           \* an `expect` of the module failed
    call                \* the last operation: its name, arguments kept for inspection, result

vars == <<debit_pool, stable, collateral, auctions, expected_size, max_auctions_count, panicked, call>>
ledger == <<debit_pool, stable, collateral, auctions, expected_size>>

Min(a, b) == IF a <= b THEN a ELSE b
Max(a, b) == IF a >= b THEN a ELSE b

RECURSIVE SumAmount(_)
SumAmount(lots) == IF lots = <<>> THEN 0 ELSE Head(lots).amount + SumAmount(Tail(lots))
RECURSIVE SumTarget(_)
SumTarget(lots) == IF lots = <<>> THEN 0 ELSE Head(lots).target + SumTarget(Tail(lots))

\* ------------------------------------------------------------- integer helpers
saturating_sub(a, b) == IF a >= b THEN a - b ELSE 0
saturating_add(a, b) == Min(a + b, MaxBalance)
checked_add(a, b) == IF a + b <= MaxBalance THEN a + b ELSE None
checked_sub(a, b) == IF a >= b THEN a - b ELSE None

\* ------------------------------------------------------------- the ledger
total_issuance(bal) == bal["module"] + bal["treasury"] + bal["other"]
LedgerWithdrawOk(bal, who, amount, refuse) == amount = 0 \/ (bal[who] >= amount /\ ~refuse)
LedgerDepositOk(bal, who, amount) == total_issuance(bal) + amount <= MaxBalance
LedgerTransferOk(bal, from, to, amount, refuse) == amount = 0 \/ from = to \/ (bal[from] >= amount /\ ~refuse)
LedgerWithdraw(bal, who, amount) == [bal EXCEPT ![who] = @ - amount]
LedgerDeposit(bal, who, amount) == [bal EXCEPT ![who] = @ + amount]
LedgerTransfer(bal, from, to, amount) ==
    IF from = to THEN bal ELSE [bal EXCEPT ![from] = @ - amount, ![to] = @ + amount]

\* ------------------------------------------------------------- the auction manager
get_total_collateral_in_auction(aucs, c) ==
    SumAmount(SelectSeq(aucs, LAMBDA l : l.currency = c))

\* ------------------------------------------------------------- the pools
account_id == "module"
surplus_pool == stable[account_id]
total_collaterals(c) == collateral[c][account_id]
\* Mutant: a plain subtraction instead of the saturating one.
total_collaterals_not_in_auction_unclamped(c) ==
    collateral[c][account_id] - get_total_collateral_in_auction(auctions, c)

total_collaterals_not_in_auction(c) ==
    saturating_sub(collateral[c][account_id], get_total_collateral_in_auction(auctions, c))

NoCall == [op |-> "none", result |-> "ok", withdraw |-> "none", dex |-> FALSE,
           currency |-> "", amount |-> 0, target |-> 0, splited |-> FALSE, in_auction |-> FALSE,
           path |-> <<>>, emitted |-> <<>>,
           unhandled_amount |-> 0, unhandled_target |-> 0, created_lots |-> 0]

Init ==
    /\ debit_pool = 0
    /\ stable = [a \in Accounts |-> 0]
    /\ collateral = [c \in Collaterals |-> [a \in {"module", "other"} |-> IF a = "other" THEN MaxCollateral ELSE 0]]
    /\ auctions = <<>>
    /\ expected_size = [c \in Collaterals |-> 0]
    /\ max_auctions_count \in 0..MaxCount
    /\ panicked = FALSE
    /\ call = NoCall

\* ------------------------------------------------------------- on_system_debit
\* Mutant: the addition saturates instead of failing.
on_system_debit_value_saturating(debit, amount) == saturating_add(debit, amount)
\* The value on_system_debit writes (None: checked_add overflows, the error is returned).
on_system_debit_value(debit, amount) == checked_add(debit, amount)

on_system_debit ==
    \E amount \in Amounts :
        LET new == on_system_debit_value(debit_pool, amount) IN
        /\ debit_pool' = IF new = None THEN debit_pool ELSE new
        /\ call' = [NoCall EXCEPT !.op = "on_system_debit", !.amount = amount,
                                  !.result = IF new = None THEN "Overflow" ELSE "ok"]
        /\ UNCHANGED <<stable, collateral, auctions, expected_size, max_auctions_count, panicked>>

\* ------------------------------------------------------------- issue_debit
\* Mutant: the `if !backed` is gone, backed issuance counts as debit too.
issue_debit_pool_always(debit, amount, backed) == on_system_debit_value(debit, amount)

\* The debit pool after the first statement of issue_debit (None: it returned the error).
issue_debit_pool(debit, amount, backed) ==
    IF backed THEN debit ELSE on_system_debit_value(debit, amount)

issue_debit_body(op, who, debit, backed) ==
    LET pool == issue_debit_pool(debit_pool, debit, backed)
        called == [NoCall EXCEPT !.op = op, !.amount = debit]
    IN
    IF pool = None
    THEN /\ call' = [called EXCEPT !.result = "Overflow"]
         /\ UNCHANGED <<debit_pool, stable>>
    ELSE IF ~LedgerDepositOk(stable, who, debit)
    THEN \* `?` on the deposit: the error is returned, the pool keeps the write made above
         /\ debit_pool' = pool
         /\ call' = [called EXCEPT !.result = "DepositFailed"]
         /\ UNCHANGED stable
    ELSE /\ debit_pool' = pool
         /\ stable' = LedgerDeposit(stable, who, debit)
         /\ call' = called

issue_debit ==
    \E who \in Accounts, debit \in Amounts, backed \in BOOLEAN :
        /\ issue_debit_body(IF backed THEN "issue_debit_backed" ELSE "issue_debit_unbacked", who, debit, backed)
        /\ UNCHANGED <<collateral, auctions, expected_size, max_auctions_count, panicked>>

on_system_surplus ==
    \E amount \in Amounts :
        /\ issue_debit_body("on_system_surplus", account_id, amount, TRUE)
        /\ UNCHANGED <<collateral, auctions, expected_size, max_auctions_count, panicked>>

\* ------------------------------------------------------------- burn_debit, deposit_surplus
burn_debit ==
    \E who \in Accounts, debit \in Amounts, refuse \in BOOLEAN :
        /\ IF LedgerWithdrawOk(stable, who, debit, refuse)
           THEN /\ stable' = LedgerWithdraw(stable, who, debit)
                /\ call' = [NoCall EXCEPT !.op = "burn_debit"]
           ELSE /\ call' = [NoCall EXCEPT !.op = "burn_debit", !.result = "LedgerError"]
                /\ UNCHANGED stable
        /\ UNCHANGED <<debit_pool, collateral, auctions, expected_size, max_auctions_count, panicked>>

deposit_surplus ==
    \E from \in Accounts, surplus \in Amounts, refuse \in BOOLEAN :
        /\ IF LedgerTransferOk(stable, from, account_id, surplus, refuse)
           THEN /\ stable' = LedgerTransfer(stable, from, account_id, surplus)
                /\ call' = [NoCall EXCEPT !.op = "deposit_surplus"]
           ELSE /\ call' = [NoCall EXCEPT !.op = "deposit_surplus", !.result = "LedgerError"]
                /\ UNCHANGED stable
        /\ UNCHANGED <<debit_pool, collateral, auctions, expected_size, max_auctions_count, panicked>>

\* ------------------------------------------------------------- collateral in and out
deposit_collateral ==
    \E c \in Collaterals, amount \in CollateralAmounts, refuse \in BOOLEAN :
        /\ IF LedgerTransferOk(collateral[c], "other", account_id, amount, refuse)
           THEN /\ collateral' = [collateral EXCEPT ![c] = LedgerTransfer(@, "other", account_id, amount)]
                /\ call' = [NoCall EXCEPT !.op = "deposit_collateral"]
           ELSE /\ call' = [NoCall EXCEPT !.op = "deposit_collateral", !.result = "LedgerError"]
                /\ UNCHANGED collateral
        /\ UNCHANGED <<debit_pool, stable, auctions, expected_size, max_auctions_count, panicked>>

withdraw_collateral ==
    \E c \in Collaterals, amount \in CollateralAmounts, refuse \in BOOLEAN :
        /\ IF LedgerTransferOk(collateral[c], account_id, "other", amount, refuse)
           THEN /\ collateral' = [collateral EXCEPT ![c] = LedgerTransfer(@, account_id, "other", amount)]
                /\ call' = [NoCall EXCEPT !.op = "withdraw_collateral"]
           ELSE /\ call' = [NoCall EXCEPT !.op = "withdraw_collateral", !.result = "LedgerError"]
                /\ UNCHANGED collateral
        /\ UNCHANGED <<debit_pool, stable, auctions, expected_size, max_auctions_count, panicked>>

\* ------------------------------------------------------------- extract_surplus_to_treasury
\* Mutant: the surplus is burnt from the module account, not moved to the treasury.
extract_surplus_transfer_burnt(bal, amount) == LedgerWithdraw(bal, account_id, amount)
\* The transfer of extract_surplus_to_treasury.
extract_surplus_transfer(bal, amount) == LedgerTransfer(bal, account_id, "treasury", amount)

extract_surplus_to_treasury ==
    \E origin \in {"update", "signed"}, amount \in Amounts, refuse \in BOOLEAN :
        LET called == [NoCall EXCEPT !.op = "extract_surplus_to_treasury", !.amount = amount] IN
        /\ IF origin # "update"
           THEN /\ call' = [called EXCEPT !.result = "BadOrigin"]
                /\ UNCHANGED stable
           ELSE IF LedgerTransferOk(stable, account_id, "treasury", amount, refuse)
           THEN /\ stable' = extract_surplus_transfer(stable, amount)
                /\ call' = called
           ELSE /\ call' = [called EXCEPT !.result = "LedgerError"]
                /\ UNCHANGED stable
        /\ UNCHANGED <<debit_pool, collateral, auctions, expected_size, max_auctions_count, panicked>>

\* ------------------------------------------------------------- the offset, on_finalize
\* Mutant: the larger of the two pools is offset.
offset_amount_max(debit, surplus) == Max(debit, surplus)
offset_amount(debit, surplus) == Min(debit, surplus)

\* Mutant: the debit pool is not written after the burn.
offset_debit_on_ok_kept(debit, offset) == debit
\* The debit pool after a withdrawal of `offset` that succeeded (None: the expect fails).
offset_debit_on_ok(debit, offset) == checked_sub(debit, offset)
\* Mutant: the debit pool is decremented although the burn failed.
offset_debit_on_err_decremented(debit, offset) == checked_sub(debit, offset)
\* The debit pool after a withdrawal of `offset` that failed (the Err arm only logs).
offset_debit_on_err(debit, offset) == debit
\* Mutant: the zero check is gone, a withdrawal of 0 is attempted.
offset_attempts_always(offset) == TRUE
\* Whether the offset attempts a withdrawal at all.
offset_attempts(offset) == offset # 0

offset_surplus_and_debit(refuse) ==
    LET offset == offset_amount(debit_pool, surplus_pool) IN
    IF ~offset_attempts(offset)
    THEN /\ call' = [NoCall EXCEPT !.op = "on_finalize"]
         /\ UNCHANGED <<debit_pool, stable, panicked>>
    ELSE IF LedgerWithdrawOk(stable, account_id, offset, refuse)
    THEN LET pool == offset_debit_on_ok(debit_pool, offset) IN
         /\ stable' = LedgerWithdraw(stable, account_id, offset)
         /\ debit_pool' = IF pool = None THEN debit_pool ELSE pool
         /\ panicked' = (panicked \/ pool = None)
         /\ call' = [NoCall EXCEPT !.op = "on_finalize", !.withdraw = "ok",
                                   !.result = IF pool = None THEN "panic" ELSE "ok"]
    ELSE /\ debit_pool' = offset_debit_on_err(debit_pool, offset)
         /\ call' = [NoCall EXCEPT !.op = "on_finalize", !.withdraw = "err"]
         /\ UNCHANGED <<stable, panicked>>

\* Mutant: the hook ends the block without running the offset.
on_finalize_without_offset ==
    /\ call' = [NoCall EXCEPT !.op = "on_finalize"]
    /\ UNCHANGED <<debit_pool, stable, panicked, collateral, auctions, expected_size, max_auctions_count>>

on_finalize ==
    \E refuse \in BOOLEAN :
        /\ offset_surplus_and_debit(refuse)
        /\ UNCHANGED <<collateral, auctions, expected_size, max_auctions_count>>

\* ------------------------------------------------------------- the lot splitter
checked_div(a, b) == IF b = 0 THEN None ELSE a \div b
checked_rem(a, b) == IF b = 0 THEN None ELSE a % b

\* Mutant: the count is not capped by MaxAuctionsCount.
lots_count_uncapped(amount, size, max, splited) ==
    IF ~splited \/ max = 0 \/ size = 0 \/ amount <= size
    THEN 1
    ELSE IF amount % size # 0 THEN (amount \div size) + 1 ELSE amount \div size

\* Mutant: the count is not rounded up when the division leaves a remainder.
lots_count_floor(amount, size, max, splited) ==
    IF ~splited \/ max = 0 \/ size = 0 \/ amount <= size
    THEN 1
    ELSE Min(amount \div size, max)

\* lots_count of create_collateral_auctions.
lots_count(amount, size, max, splited) ==
    IF ~splited \/ max = 0 \/ size = 0 \/ amount <= size
    THEN 1
    ELSE LET count == checked_div(amount, size)
             remainder == checked_rem(amount, size)
             rounded == IF remainder # 0 THEN saturating_add(count, 1) ELSE count
         IN Min(rounded, max)

\* Mutant: the last lot gets the average too, the remnant is left over.
lot_of_average(created, count, unhandled_amount, unhandled_target, average_amount, average_target) ==
    [amount |-> Min(Max(average_amount, 1), unhandled_amount), target |-> Min(average_target, unhandled_target)]

\* Mutant: the first lot, not the last, is given all that is unhandled.
lot_of_first_takes_all(created, count, unhandled_amount, unhandled_target, average_amount, average_target) ==
    IF created = 1
    THEN [amount |-> unhandled_amount, target |-> unhandled_target]
    ELSE [amount |-> average_amount, target |-> average_target]

\* The amount and target of lot number `created` (counted from 1).
lot_of(created, count, unhandled_amount, unhandled_target, average_amount, average_target) ==
    IF created = count
    THEN [amount |-> unhandled_amount, target |-> unhandled_target]
    ELSE [amount |-> average_amount, target |-> average_target]

\* The auction manager refuses the call number fail_at of an operation (0: none).
NewCollateralAuctionOk(created, fail_at) == created # fail_at

\* The while loop: the lots handed to new_collateral_auction until the amount is
\* handled or a call fails.
RECURSIVE emit_lots(_, _, _, _, _, _, _, _, _)
\* Mutant: the condition is tested after the body, the first lot is always made.
emit_lots_do_while(c, unhandled_amount, unhandled_target, created_lots, count, average_amount, average_target, fail_at, done) ==
    IF unhandled_amount = 0 /\ created_lots > 0
    THEN [lots |-> done, failed |-> FALSE]
    ELSE LET created == saturating_add(created_lots, 1)
             lot == lot_of(created, count, unhandled_amount, unhandled_target, average_amount, average_target)
         IN IF ~NewCollateralAuctionOk(created, fail_at)
            THEN [lots |-> done, failed |-> TRUE]
            ELSE emit_lots(c, saturating_sub(unhandled_amount, lot.amount),
                           saturating_sub(unhandled_target, lot.target),
                           created, count, average_amount, average_target, fail_at,
                           Append(done, [currency |-> c, amount |-> lot.amount, target |-> lot.target]))

emit_lots(c, unhandled_amount, unhandled_target, created_lots, count, average_amount, average_target, fail_at, done) ==
    IF unhandled_amount = 0
    THEN [lots |-> done, failed |-> FALSE]
    ELSE LET created == saturating_add(created_lots, 1)
             lot == lot_of(created, count, unhandled_amount, unhandled_target, average_amount, average_target)
         IN IF ~NewCollateralAuctionOk(created, fail_at)
            THEN [lots |-> done, failed |-> TRUE]
            ELSE emit_lots(c, saturating_sub(unhandled_amount, lot.amount),
                           saturating_sub(unhandled_target, lot.target),
                           created, count, average_amount, average_target, fail_at,
                           Append(done, [currency |-> c, amount |-> lot.amount, target |-> lot.target]))

split_lots(c, amount, target, size, max, splited, fail_at) ==
    LET count == lots_count(amount, size, max, splited)
    IN emit_lots(c, amount, target, 0, count, checked_div(amount, count), checked_div(target, count), fail_at, <<>>)

\* The auctions left by a call whose lot failed: a #[transactional] call rolls its
\* writes back, the bare trait function keeps them.
auctions_after_failure(before, created, transactional) ==
    IF transactional THEN before ELSE before \o created

\* What the auction manager keeps of the lots it accepted.
Opened(lots) == [i \in 1..Len(lots) |-> [currency |-> lots[i].currency, amount |-> lots[i].amount]]

\* The calls of new_collateral_auction that may fail: any of the lots, or none (0).
FailPoints(count) == 0..count

\* Mutant: an amount equal to the collateral not in auction is refused.
enough_collateral_not_in_auction_strict(c, amount) ==
    total_collaterals_not_in_auction(c) > amount

\* The ensure! of create_collateral_auctions.
enough_collateral_not_in_auction(c, amount) ==
    total_collaterals_not_in_auction(c) >= amount

\* Each argument is chosen where the operation first reads it.
create_collateral_auctions_body(op, transactional) ==
    \E c \in Collaterals, amount \in CollateralAmounts :
        LET called == [NoCall EXCEPT !.op = op, !.currency = c, !.amount = amount] IN
        IF ~enough_collateral_not_in_auction(c, amount)
        THEN /\ call' = [called EXCEPT !.result = "CollateralNotEnough"]
             /\ UNCHANGED auctions
        ELSE \E target \in Targets, splited \in BOOLEAN :
             \E fail_at \in FailPoints(lots_count(amount, expected_size[c], max_auctions_count, splited)) :
             LET r == split_lots(c, amount, target, expected_size[c], max_auctions_count, splited, fail_at) IN
             /\ auctions' = IF r.failed THEN auctions_after_failure(auctions, Opened(r.lots), transactional)
                            ELSE auctions \o Opened(r.lots)
             /\ call' = [called EXCEPT !.result = IF r.failed THEN "AuctionError" ELSE "ok",
                                       !.target = target, !.splited = splited, !.emitted = r.lots]

\* ------------------------------------------------------------- the lot splitter, statement by statement
\* The trait function again, one loop iteration a step. `call` holds its arguments
\* and its locals while it runs (result "running").

\* Mutant: the loop has no exit condition.
emission_continues_always(unhandled_collateral_amount) == TRUE
\* The condition of the while loop.
emission_continues(unhandled_collateral_amount) == unhandled_collateral_amount # 0

\* From the entry to the loop: the ensure!, then the locals are set.
create_collateral_auctions_enter ==
    /\ call.result # "running"
    /\ \E c \in Collaterals, amount \in Amounts :
        LET called == [NoCall EXCEPT !.op = "create_collateral_auctions", !.currency = c, !.amount = amount] IN
        IF ~enough_collateral_not_in_auction(c, amount)
        THEN call' = [called EXCEPT !.result = "CollateralNotEnough"]
        ELSE \E target \in Targets, splited \in BOOLEAN :
             call' = [called EXCEPT !.result = "running", !.target = target, !.splited = splited,
                                    !.unhandled_amount = amount, !.unhandled_target = target]
    /\ UNCHANGED <<debit_pool, stable, collateral, auctions, expected_size, max_auctions_count, panicked>>

\* One iteration: the auction manager accepts the lot or fails (the `?` returns).
create_collateral_auctions_iterate ==
    /\ call.result = "running"
    /\ emission_continues(call.unhandled_amount)
    /\ \E accepted \in BOOLEAN :
        LET count == lots_count(call.amount, expected_size[call.currency], max_auctions_count, call.splited)
            created == saturating_add(call.created_lots, 1)
            lot == lot_of(created, count, call.unhandled_amount, call.unhandled_target,
                          checked_div(call.amount, count), checked_div(call.target, count))
        IN IF ~accepted
           THEN /\ call' = [call EXCEPT !.result = "AuctionError", !.created_lots = created]
                /\ UNCHANGED auctions
           ELSE /\ auctions' = Append(auctions, [currency |-> call.currency, amount |-> lot.amount])
                /\ call' = [call EXCEPT !.created_lots = created,
                                        !.unhandled_amount = saturating_sub(@, lot.amount),
                                        !.unhandled_target = saturating_sub(@, lot.target),
                                        !.emitted = Append(@, [currency |-> call.currency, amount |-> lot.amount,
                                                               target |-> lot.target])]
    /\ UNCHANGED <<debit_pool, stable, collateral, expected_size, max_auctions_count, panicked>>

\* The loop is left: Ok(()).
create_collateral_auctions_return ==
    /\ call.result = "running"
    /\ ~emission_continues(call.unhandled_amount)
    /\ call' = [call EXCEPT !.result = "ok"]
    /\ UNCHANGED <<debit_pool, stable, collateral, auctions, expected_size, max_auctions_count, panicked>>

\* The trait function, called by the liquidation path.
create_collateral_auctions ==
    /\ create_collateral_auctions_body("create_collateral_auctions", FALSE)
    /\ UNCHANGED <<debit_pool, stable, collateral, expected_size, max_auctions_count, panicked>>

\* The dispatchable, #[transactional].
auction_collateral ==
    \E origin \in {"update", "signed"} :
        /\ IF origin # "update"
           THEN /\ call' = [NoCall EXCEPT !.op = "auction_collateral", !.result = "BadOrigin"]
                /\ UNCHANGED auctions
           ELSE create_collateral_auctions_body("auction_collateral", TRUE)
        /\ UNCHANGED <<debit_pool, stable, collateral, expected_size, max_auctions_count, panicked>>

set_expected_collateral_auction_size ==
    \E origin \in {"update", "signed"}, c \in Collaterals, size \in 0..MaxSize :
        /\ IF origin # "update"
           THEN /\ call' = [NoCall EXCEPT !.op = "set_expected_collateral_auction_size", !.result = "BadOrigin"]
                /\ UNCHANGED expected_size
           ELSE /\ expected_size' = [expected_size EXCEPT ![c] = size]
                /\ call' = [NoCall EXCEPT !.op = "set_expected_collateral_auction_size"]
        /\ UNCHANGED <<debit_pool, stable, collateral, auctions, max_auctions_count, panicked>>

\* The auction manager ends an auction: the collateral leaves the treasury.
auction_dealt ==
    \E i \in 1..Len(auctions) :
        LET lot == auctions[i] IN
        /\ collateral[lot.currency][account_id] >= lot.amount
        /\ collateral' = [collateral EXCEPT ![lot.currency] = LedgerTransfer(@, account_id, "other", lot.amount)]
        /\ auctions' = SubSeq(auctions, 1, i - 1) \o SubSeq(auctions, i + 1, Len(auctions))
        /\ call' = [NoCall EXCEPT !.op = "auction_dealt"]
        /\ UNCHANGED <<debit_pool, stable, expected_size, max_auctions_count, panicked>>

\* ------------------------------------------------------------- the swaps
\* Mutant: collateral in auction is checked against the treasury's balance only.
collateral_available_total_only(c, needed, collateral_in_auction) ==
    IF collateral_in_auction
    THEN total_collaterals(c) >= needed
    ELSE total_collaterals_not_in_auction(c) >= needed

\* The first ensure! of both swaps.
collateral_available(c, needed, collateral_in_auction) ==
    IF collateral_in_auction
    THEN total_collaterals(c) >= needed /\ get_total_collateral_in_auction(auctions, c) >= needed
    ELSE total_collaterals_not_in_auction(c) >= needed

\* Mutant: the end of the path is not checked.
valid_swap_path_any_end(c, swap_path) ==
    /\ Len(swap_path) >= 2
    /\ swap_path[1] = c

\* The second ensure! of both swaps.
valid_swap_path(c, swap_path) ==
    LET swap_path_length == Len(swap_path) IN
    /\ swap_path_length >= 2
    /\ swap_path[1] = c
    /\ swap_path[swap_path_length] = STABLE

\* The DEX: it takes `supply` of the path's first currency from the treasury and
\* pays `target` of the stable currency out of the pool held by "other".
DexOk(supply_currency, supply, target) ==
    /\ supply_currency \in Collaterals
    /\ collateral[supply_currency][account_id] >= supply
    /\ stable["other"] >= target

DexSettle(supply_currency, supply, target) ==
    /\ collateral' = [collateral EXCEPT ![supply_currency] = LedgerTransfer(@, account_id, "other", supply)]
    /\ stable' = LedgerTransfer(stable, "other", account_id, target)

\* swap_with_exact_supply: the DEX offers `offer` of the stable currency for the supply.
swap_with_exact_supply(called, swap_path, supply_amount, min_target_amount, offer) ==
    IF offer >= min_target_amount /\ DexOk(swap_path[1], supply_amount, offer)
    THEN /\ DexSettle(swap_path[1], supply_amount, offer)
         /\ call' = [called EXCEPT !.dex = TRUE]
    ELSE /\ call' = [called EXCEPT !.dex = TRUE, !.result = "DexError"]
         /\ UNCHANGED <<collateral, stable>>

\* swap_with_exact_target: the DEX asks `offer` of the collateral for the target.
swap_with_exact_target(called, swap_path, target_amount, max_supply_amount, offer) ==
    IF offer <= max_supply_amount /\ DexOk(swap_path[1], offer, target_amount)
    THEN /\ DexSettle(swap_path[1], offer, target_amount)
         /\ call' = [called EXCEPT !.dex = TRUE]
    ELSE /\ call' = [called EXCEPT !.dex = TRUE, !.result = "DexError"]
         /\ UNCHANGED <<collateral, stable>>

\* Swap paths a caller passes: too short, starting or ending at the wrong currency,
\* and well-formed with one or two hops. The stable amounts of a swap (the treasury
\* hands them to the DEX as they are).
Paths == {<<>>, <<"DOT">>, <<"AUSD">>,
          <<"DOT", "AUSD">>, <<"AUSD", "DOT">>, <<"DOT", "DOT">>, <<"AUSD", "AUSD">>,
          <<"DOT", "DOT", "AUSD">>, <<"DOT", "AUSD", "DOT">>, <<"AUSD", "DOT", "AUSD">>}
SwapAmounts == 0..1

\* The record of a swap: the path is recorded once the operation has read it.
SwapCall(op, c, needed, collateral_in_auction) ==
    [NoCall EXCEPT !.op = op, !.currency = c, !.amount = needed, !.in_auction = collateral_in_auction]

\* Each argument is chosen where the operation first reads it.
swap_exact_collateral_to_stable ==
    \E c \in Collaterals, supply_amount \in CollateralAmounts, collateral_in_auction \in BOOLEAN :
        LET called == SwapCall("swap_exact_collateral_to_stable", c, supply_amount, collateral_in_auction) IN
        /\ IF ~collateral_available(c, supply_amount, collateral_in_auction)
           THEN /\ call' = [called EXCEPT !.result = "CollateralNotEnough"]
                /\ UNCHANGED <<collateral, stable>>
           ELSE \E swap_path \in Paths :
                IF ~valid_swap_path(c, swap_path)
                THEN /\ call' = [called EXCEPT !.result = "InvalidSwapPath", !.path = swap_path]
                     /\ UNCHANGED <<collateral, stable>>
                ELSE \E min_target_amount \in SwapAmounts, offer \in SwapAmounts :
                     swap_with_exact_supply([called EXCEPT !.path = swap_path], swap_path,
                                            supply_amount, min_target_amount, offer)
        /\ UNCHANGED <<debit_pool, auctions, expected_size, max_auctions_count, panicked>>

swap_collateral_to_exact_stable ==
    \E c \in Collaterals, max_supply_amount \in CollateralAmounts, collateral_in_auction \in BOOLEAN :
        LET called == SwapCall("swap_collateral_to_exact_stable", c, max_supply_amount, collateral_in_auction) IN
        /\ IF ~collateral_available(c, max_supply_amount, collateral_in_auction)
           THEN /\ call' = [called EXCEPT !.result = "CollateralNotEnough"]
                /\ UNCHANGED <<collateral, stable>>
           ELSE \E swap_path \in Paths :
                IF ~valid_swap_path(c, swap_path)
                THEN /\ call' = [called EXCEPT !.result = "InvalidSwapPath", !.path = swap_path]
                     /\ UNCHANGED <<collateral, stable>>
                ELSE \E target_amount \in SwapAmounts, offer \in 0..(max_supply_amount + 1) :
                     swap_with_exact_target([called EXCEPT !.path = swap_path], swap_path,
                                            target_amount, max_supply_amount, offer)
        /\ UNCHANGED <<debit_pool, auctions, expected_size, max_auctions_count, panicked>>

\* ------------------------------------------------------------- specifications
NextPool ==
    \/ on_system_debit
    \/ on_system_surplus
    \/ issue_debit
    \/ burn_debit
    \/ deposit_surplus
    \/ extract_surplus_to_treasury
    \/ on_finalize

Next ==
    \/ NextPool
    \/ deposit_collateral
    \/ withdraw_collateral
    \/ create_collateral_auctions
    \/ auction_collateral
    \/ set_expected_collateral_auction_size
    \/ auction_dealt
    \/ swap_exact_collateral_to_stable
    \/ swap_collateral_to_exact_stable

\* Every operation. The three specifications below each run one part of it: the
\* parts share no storage but the treasury's stable balance, which only the
\* DEX's payment of a swap writes from outside the pool operations.
Spec == Init /\ [][Next]_vars

\* The operations on the debit pool and the stable currency; none of them reads the
\* collateral, the auctions or the splitter's configuration.
InitPool ==
    /\ debit_pool = 0
    /\ stable = [a \in Accounts |-> 0]
    /\ collateral = [c \in Collaterals |-> [a \in {"module", "other"} |-> IF a = "other" THEN MaxCollateral ELSE 0]]
    /\ auctions = <<>>
    /\ expected_size = [c \in Collaterals |-> 0]
    /\ max_auctions_count = 0
    /\ panicked = FALSE
    /\ call = NoCall

SpecPool == InitPool /\ [][NextPool]_vars

\* The lot splitter, from every genesis configuration of the expected auction sizes.
InitSplit ==
    /\ debit_pool = 0
    /\ stable = [a \in Accounts |-> 0]
    /\ collateral = [c \in Collaterals |-> [a \in {"module", "other"} |-> IF a = "other" THEN MaxCollateral ELSE 0]]
    /\ auctions = <<>>
    /\ expected_size \in [Collaterals -> 0..MaxSize]
    /\ max_auctions_count \in 0..MaxCount
    /\ panicked = FALSE
    /\ call = NoCall

NextSplit ==
    \/ deposit_collateral
    \/ set_expected_collateral_auction_size
    \/ create_collateral_auctions
    \/ auction_collateral
    \/ auction_dealt

SpecSplit == InitSplit /\ [][NextSplit]_vars

\* The swaps, with a DEX pool that holds stable currency and no splitting configured.
InitSwap ==
    /\ debit_pool = 0
    /\ stable = [a \in Accounts |-> IF a = "other" THEN 1 ELSE 0]
    /\ collateral = [c \in Collaterals |-> [a \in {"module", "other"} |-> IF a = "other" THEN MaxCollateral ELSE 0]]
    /\ auctions = <<>>
    /\ expected_size = [c \in Collaterals |-> 0]
    /\ max_auctions_count = 0
    /\ panicked = FALSE
    /\ call = NoCall

NextSwap ==
    \/ deposit_collateral
    \/ withdraw_collateral
    \/ auction_collateral
    \/ auction_dealt
    \/ swap_exact_collateral_to_stable
    \/ swap_collateral_to_exact_stable

SpecSwap == InitSwap /\ [][NextSwap]_vars

\* The lot splitter statement by statement, on a treasury that holds the largest
\* balance of each collateral, from every configuration.
InitLoop ==
    /\ debit_pool = 0
    /\ stable = [a \in Accounts |-> 0]
    /\ collateral = [c \in Collaterals |-> [a \in {"module", "other"} |-> IF a = "module" THEN MaxBalance ELSE 0]]
    /\ auctions = <<>>
    /\ expected_size \in [Collaterals -> 0..MaxSize]
    /\ max_auctions_count \in 0..MaxCount
    /\ panicked = FALSE
    /\ call = NoCall

NextLoop ==
    \/ create_collateral_auctions_enter
    \/ create_collateral_auctions_iterate
    \/ create_collateral_auctions_return

SpecLoop == InitLoop /\ [][NextLoop]_vars

\* The function runs to its end once called: it is synchronous code.
SpecLoopFair ==
    /\ SpecLoop
    /\ WF_vars(create_collateral_auctions_iterate)
    /\ WF_vars(create_collateral_auctions_return)

\* Every operation, run once from each state of a bounded part of the states the
\* module gets into: any debit pool and any stable balances with the collateral side
\* at genesis, or any debit pool and any collateral, open auction and configuration
\* with a DEX pool.
StableBalances == {bal \in [Accounts -> Amounts] : total_issuance(bal) <= MaxBalance}
OpenAuctions == {<<>>} \cup {<<[currency |-> c, amount |-> a]>> : c \in Collaterals, a \in 1..MaxCollateral}

InitStep ==
    /\ debit_pool \in Amounts
    /\ \/ /\ stable \in StableBalances
          /\ collateral = [c \in Collaterals |-> [a \in {"module", "other"} |-> IF a = "other" THEN MaxCollateral ELSE 0]]
          /\ auctions = <<>>
          /\ expected_size = [c \in Collaterals |-> 0]
          /\ max_auctions_count = 0
       \/ /\ stable \in {bal \in StableBalances : bal["module"] = 0 /\ bal["treasury"] = 0 /\ bal["other"] \in SwapAmounts}
          /\ collateral \in {[c \in Collaterals |-> [a \in {"module", "other"} |->
                                  IF a = "module" THEN m ELSE MaxCollateral - m]] : m \in CollateralAmounts}
          /\ auctions \in OpenAuctions
          /\ expected_size \in [Collaterals -> 0..MaxSize]
          /\ max_auctions_count \in 0..MaxCount
    /\ panicked = FALSE
    /\ call = NoCall

NoneYet == call = NoCall

NextStep ==
    \/ NoneYet /\ on_system_debit
    \/ NoneYet /\ on_system_surplus
    \/ NoneYet /\ issue_debit
    \/ NoneYet /\ burn_debit
    \/ NoneYet /\ deposit_surplus
    \/ NoneYet /\ extract_surplus_to_treasury
    \/ NoneYet /\ on_finalize
    \/ NoneYet /\ deposit_collateral
    \/ NoneYet /\ withdraw_collateral
    \/ NoneYet /\ create_collateral_auctions
    \/ NoneYet /\ auction_collateral
    \/ NoneYet /\ set_expected_collateral_auction_size
    \/ NoneYet /\ auction_dealt
    \/ NoneYet /\ swap_exact_collateral_to_stable
    \/ NoneYet /\ swap_collateral_to_exact_stable

SpecStep == InitStep /\ [][NextStep]_vars

\* ------------------------------------------------------------- properties
CreateOps == {"create_collateral_auctions", "auction_collateral"}
SwapOps == {"swap_exact_collateral_to_stable", "swap_collateral_to_exact_stable"}
IssueOps == {"issue_debit_backed", "issue_debit_unbacked", "on_system_surplus"}

\* C1 as stated: after every successful create_collateral_auctions the amounts of
\* the lots handed to new_collateral_auction sum to `amount` and their targets sum
\* to `target`, for every amount.
C1_ConservationEveryAmount ==
    call.op \in CreateOps /\ call.result = "ok"
        => SumAmount(call.emitted) = call.amount /\ SumTarget(call.emitted) = call.target

\* C1 amended: after every successful create_collateral_auctions with amount > 0
\* the amounts of the lots sum to `amount` and their targets sum to `target`; with
\* amount = 0 no lot is handed over, so both sums are 0 whatever the target is.
C1_Conservation ==
    call.op \in CreateOps /\ call.result = "ok"
        => /\ SumAmount(call.emitted) = call.amount
           /\ call.amount > 0 => SumTarget(call.emitted) = call.target
           /\ call.amount = 0 => SumTarget(call.emitted) = 0

\* C1 witness: a successful call split 3 units with target 3 into two unequal lots.
C1_Witness ==
    /\ call.op \in CreateOps /\ call.result = "ok"
    /\ call.amount = 3 /\ call.target = 3
    /\ Len(call.emitted) = 2
    /\ call.emitted[1].amount < call.emitted[2].amount
    /\ call.emitted[1].target < call.emitted[2].target

\* C2: the debit pool is never negative and the expect of the offset's checked_sub
\* never fails, whatever on_system_debit, issue_debit and on_finalize calls ran.
C2_NonNegative == debit_pool >= 0 /\ ~panicked

\* C2 witness: the offset has burnt surplus and decremented the debit pool.
C2_Witness == call.op = "on_finalize" /\ call.withdraw = "ok" /\ debit_pool > 0

\* C3: an on_finalize whose withdrawal did not fail takes min(debit_pool, surplus_pool)
\* off the debit pool, off the surplus pool and off the total issuance.
C3_OffsetResult ==
    [][call'.op = "on_finalize" /\ call'.withdraw # "err"
        => LET offset == IF debit_pool <= stable["module"] THEN debit_pool ELSE stable["module"] IN
           /\ debit_pool' = debit_pool - offset
           /\ stable'["module"] = stable["module"] - offset
           /\ total_issuance(stable') = total_issuance(stable) - offset]_vars

\* C3 witness: a debit pool larger than the surplus was offset: the surplus is gone,
\* debit is left (as 100 and 60 leave 40 and 0).
C3_Witness ==
    call.op = "on_finalize" /\ call.withdraw = "ok" /\ debit_pool = 1 /\ stable["module"] = 0

\* C4 as stated: create_collateral_auctions never creates more lots than
\* max_auctions_count, and a successful call with amount > 0 creates at least one.
C4_LotBoundEveryCount ==
    call.op \in CreateOps
        => /\ Len(call.emitted) <= max_auctions_count
           /\ call.result = "ok" /\ call.amount > 0 => Len(call.emitted) >= 1

\* C4 amended: create_collateral_auctions never creates more lots than
\* max(1, max_auctions_count) (a max_auctions_count of 0 switches splitting off and
\* one lot is created), and a successful call with amount > 0 creates at least one.
C4_LotBound ==
    call.op \in CreateOps
        => /\ Len(call.emitted) <= Max(1, max_auctions_count)
           /\ call.result = "ok" /\ call.amount > 0 => Len(call.emitted) >= 1

\* C4 witness: the cap acted: 3 units at an expected size of 1 made 2 lots, not 3.
C4_Witness ==
    /\ call.op \in CreateOps /\ call.result = "ok"
    /\ call.amount = 3 /\ call.splited
    /\ expected_size[call.currency] = 1 /\ max_auctions_count = 2
    /\ Len(call.emitted) = 2

\* C5: when new_collateral_auction fails in a create_collateral_auctions call, the
\* auctions (and so the collateral locked in auction) are those before the call.
C5_Atomicity ==
    [][call'.op \in CreateOps /\ call'.result = "AuctionError"
        => auctions' = auctions /\ collateral' = collateral]_vars

C7_PathValidation ==
    call.op \in SwapOps /\ call.result # "CollateralNotEnough"
        => LET n == Len(call.path)
               valid == n >= 2 /\ call.path[1] = call.currency /\ call.path[n] = "AUSD"
           IN /\ call.dex <=> valid
              /\ call.dex => call.result \in {"ok", "DexError"}
              /\ ~call.dex => call.result = "InvalidSwapPath"
              /\ call.path = <<"DOT">> => call.result = "InvalidSwapPath"
              /\ call.path = <<"DOT", "AUSD">> /\ call.currency = "DOT" => call.dex

\* C7 witness: the path [DOT] was refused by a swap whose collateral was available.
C7_Witness ==
    call.op \in SwapOps /\ call.result = "InvalidSwapPath" /\ call.path = <<"DOT">> /\ call.amount > 0

\* C8: an on_finalize that starts with an empty debit pool or an empty surplus pool,
\* or right after an on_finalize whose withdrawal did not fail, attempts no withdrawal
\* and changes neither the debit pool nor any balance.
C8_IdempotentNetting ==
    [][(call'.op = "on_finalize"
            /\ (debit_pool = 0 \/ stable["module"] = 0
                    \/ (call.op = "on_finalize" /\ call.withdraw # "err")))
        => (call'.withdraw = "none"
            /\ debit_pool' = debit_pool /\ stable' = stable /\ collateral' = collateral)]_vars

\* C8 witness: an on_finalize ran as a no-op with debit left in the pool.
C8_Witness == call.op = "on_finalize" /\ call.withdraw = "none" /\ debit_pool > 0

\* C9: when the withdrawal of the offset fails, the debit pool and every balance stay
\* as they were and on_finalize ends normally.
C9_SwallowedBurnFailure ==
    [][call'.op = "on_finalize" /\ call'.withdraw = "err"
        => /\ debit_pool' = debit_pool /\ stable' = stable /\ collateral' = collateral
           /\ call'.result = "ok" /\ ~panicked']_vars

\* C9 witness: the withdrawal of an on_finalize failed with both pools non-empty.
C9_Witness ==
    call.op = "on_finalize" /\ call.withdraw = "err" /\ debit_pool > 0 /\ stable["module"] > 0

\* C10: an issue_debit that returns an error leaves the debit pool and every balance
\* as they were.
C10_NoPartialIssue ==
    [][call'.op \in IssueOps /\ call'.result # "ok"
        => debit_pool' = debit_pool /\ stable' = stable]_vars

\* C11: create_collateral_auctions fails with CollateralNotEnough exactly when the
\* treasury's collateral not in auction is less than the amount, and then it creates
\* no lot and changes nothing.
C11_Precondition ==
    [][call'.op \in CreateOps /\ call'.result # "BadOrigin"
        => LET c == call'.currency
               free == Max(collateral[c]["module"] - get_total_collateral_in_auction(auctions, c), 0)
           IN /\ (call'.result = "CollateralNotEnough") <=> (free < call'.amount)
              /\ call'.result = "CollateralNotEnough"
                    => call'.emitted = <<>> /\ UNCHANGED ledger]_vars

\* C11 witness: a call was refused although the treasury holds the amount, because
\* part of it is in auction.
C11_Witness ==
    /\ call.op \in CreateOps /\ call.result = "CollateralNotEnough"
    /\ total_collaterals(call.currency) >= call.amount

\* The lots of a call, as a sequence of amounts and as a sequence of targets.
AmountsOf(lots) == [i \in 1..Len(lots) |-> lots[i].amount]
TargetsOf(lots) == [i \in 1..Len(lots) |-> lots[i].target]

\* C12: for amount > 0 create_collateral_auctions hands over, in sequence, n lots,
\* n = 1 if splitting is off, max_lots = 0, lot_size = 0 or amount <= lot_size, else
\* n = min(ceil(amount / lot_size), max_lots); every lot but the last has amount
\* floor(amount / n) and target floor(target / n), the last takes what remains; a
\* call that the auction manager fails has handed over the first lots of these.
\* 250 at a lot size of 100 makes (83, 83, 84) with max_lots 10, (125, 125) with 2.
C12_LotDistribution ==
    /\ call.op \in CreateOps /\ call.amount > 0 /\ call.result \in {"ok", "AuctionError", "running"}
        => LET size == expected_size[call.currency]
               n == IF ~call.splited \/ max_auctions_count = 0 \/ size = 0 \/ call.amount <= size
                    THEN 1
                    ELSE Min((call.amount + size - 1) \div size, max_auctions_count)
               k == Len(call.emitted)
           IN /\ k <= n
              /\ call.result = "ok" => k = n
              /\ \A i \in 1..k : i < n =>
                    /\ call.emitted[i].amount = call.amount \div n
                    /\ call.emitted[i].target = call.target \div n
              /\ k = n =>
                    /\ call.emitted[n].amount = call.amount - (n - 1) * (call.amount \div n)
                    /\ call.emitted[n].target = call.target - (n - 1) * (call.target \div n)
    /\ AmountsOf(split_lots("DOT", 250, 250, 100, 10, TRUE, 0).lots) = <<83, 83, 84>>
    /\ AmountsOf(split_lots("DOT", 250, 250, 100, 2, TRUE, 0).lots) = <<125, 125>>

\* C12 witness: 5 units at a lot size of 2 were handed over as lots of 1, 1 and 3
\* with targets 1, 1, 1.
C12_Witness ==
    /\ call.op \in CreateOps /\ call.result = "ok"
    /\ call.amount = 5 /\ call.target = 3
    /\ AmountsOf(call.emitted) = <<1, 1, 3>>
    /\ TargetsOf(call.emitted) = <<1, 1, 1>>

\* A call that splits and whose count ceil(amount / lot_size) is not clamped.
C13_SplitsUnclamped ==
    /\ call.op \in CreateOps /\ call.result \in {"ok", "AuctionError", "running"}
    /\ call.splited /\ max_auctions_count > 0 /\ expected_size[call.currency] > 0
    /\ (call.amount + expected_size[call.currency] - 1) \div expected_size[call.currency] <= max_auctions_count

\* C13 as stated: when splitting is on and the count is not clamped, every lot handed
\* over, the last included, is no larger than the expected lot size.
C13_LotSizeEveryLot ==
    C13_SplitsUnclamped
        => \A i \in 1..Len(call.emitted) : call.emitted[i].amount <= expected_size[call.currency]

\* C13 amended: when splitting is on and the count is not clamped, every lot but the
\* last is no larger than the expected lot size; the last, which takes the remainder
\* of the division by the count, exceeds it by less than the count of lots.
C13_LotSize ==
    C13_SplitsUnclamped
        => LET size == expected_size[call.currency]
               n == Max(1, (call.amount + size - 1) \div size)
           IN \A i \in 1..Len(call.emitted) :
                /\ i < n => call.emitted[i].amount <= size
                /\ i >= n => call.emitted[i].amount <= size + n - 1

\* C13 witness: 5 units at a lot size of 2 and a count of 3: the last lot holds 3.
C13_Witness ==
    /\ C13_SplitsUnclamped /\ call.result = "ok"
    /\ expected_size[call.currency] = 2
    /\ Len(call.emitted) = 3 /\ call.emitted[3].amount = 3

\* C14: at the end of a block whose on_finalize had no withdrawal fail, the debit pool
\* and the surplus pool are not both positive, whatever operations ran in the block.
C14_EndOfCycleNetting ==
    call.op = "on_finalize" /\ call.withdraw # "err"
        => ~(debit_pool > 0 /\ stable["module"] > 0)

\* C14 witness: the offset burnt the whole debit pool and left surplus.
C14_Witness ==
    call.op = "on_finalize" /\ call.withdraw = "ok" /\ debit_pool = 0 /\ stable["module"] > 0

\* The operations that issue unbacked debit, and those that must leave the debit pool.
DebitOps == {"on_system_debit", "issue_debit_unbacked"}
DebitFrameOps == {"on_system_surplus", "issue_debit_backed", "burn_debit", "deposit_surplus",
                  "deposit_collateral", "withdraw_collateral", "extract_surplus_to_treasury",
                  "auction_collateral", "create_collateral_auctions",
                  "swap_exact_collateral_to_stable", "swap_collateral_to_exact_stable",
                  "set_expected_collateral_auction_size"}

\* C15: the debit pool is changed only by on_system_debit and by issue_debit with
\* backed = false, which add exactly the given amount, and by the offset of
\* on_finalize, which takes off; every other operation leaves it as it was.
C15_DebitPoolFrame ==
    [][/\ call'.op \in DebitOps
            => /\ debit_pool' \in {debit_pool, debit_pool + call'.amount}
               /\ call'.result = "ok" => debit_pool' = debit_pool + call'.amount
       /\ call'.op = "on_finalize" => debit_pool' <= debit_pool
       /\ call'.op \in DebitFrameOps => debit_pool' = debit_pool]_vars

\* C15 witness: a swap paid stable currency into the treasury while debit was in the
\* pool.
C15_Witness ==
    /\ call.op \in SwapOps /\ call.result = "ok" /\ call.dex
    /\ debit_pool > 0 /\ stable["module"] > 0

\* C16: create_collateral_auctions with amount = 0 returns Ok, hands no lot to
\* new_collateral_auction (also none that would fail) and opens no auction, whatever
\* the target, the expected size, the max count and the split flag are.
C16_ZeroAmount ==
    [][call'.op \in CreateOps /\ call'.result # "BadOrigin" /\ call'.amount = 0
        => call'.result = "ok" /\ call'.emitted = <<>> /\ auctions' = auctions]_vars

\* C16 witness: a call with amount 0 and a target returned Ok with splitting
\* configured.
C16_Witness ==
    /\ call.op \in CreateOps /\ call.result = "ok"
    /\ call.amount = 0 /\ call.target > 0 /\ call.splited
    /\ expected_size[call.currency] > 0 /\ max_auctions_count > 0

\* What the claim gives for the collateral not in auction.
C17_Clamped(c) ==
    Max(collateral[c]["module"] - get_total_collateral_in_auction(auctions, c), 0)

\* C17: the collateral not in auction is max(balance - locked, 0) in the state every
\* step starts from; when the auction manager reports more locked than the treasury holds,
\* create_collateral_auctions and the swaps of collateral not in auction are refused
\* with CollateralNotEnough for every amount but 0, and nothing panics.
C17_FreeCollateralClamped ==
    [][/\ \A c \in Collaterals :
            total_collaterals_not_in_auction(c) = C17_Clamped(c)
       /\ ~panicked'
       /\ (/\ call'.op \in CreateOps \/ (call'.op \in SwapOps /\ ~call'.in_auction)
           /\ call'.result # "BadOrigin"
           /\ get_total_collateral_in_auction(auctions, call'.currency) > collateral[call'.currency]["module"])
            => /\ total_collaterals_not_in_auction(call'.currency) = 0
               /\ (call'.result # "CollateralNotEnough") <=> (call'.amount = 0)]_vars

\* C17 witness: with more collateral in auction than the treasury holds, a swap of
\* 0 collateral not in auction passed the availability check.
C17_Witness ==
    /\ call.op \in SwapOps /\ ~call.in_auction
    /\ call.amount = 0 /\ call.result # "CollateralNotEnough"
    /\ get_total_collateral_in_auction(auctions, call.currency) > total_collaterals(call.currency)

\* The count of lots the claim gives for the call in `call`.
C18_Count ==
    LET size == expected_size[call.currency] IN
    IF ~call.splited \/ max_auctions_count = 0 \/ size = 0 \/ call.amount <= size
    THEN 1
    ELSE Min((call.amount + size - 1) \div size, max_auctions_count)

\* C18: the loop of create_collateral_auctions ends for every input; every iteration
\* whose lot is accepted takes a positive quantity off the unhandled amount, the one
\* numbered lots_count takes it to zero and the ones before it do not; so a call with
\* amount > 0 that returns Ok ran lots_count iterations, at most
\* max(1, max_auctions_count).
C18_Termination ==
    /\ (call.result = "running") ~> (call.result # "running")
    /\ [][call.result = "running" /\ call'.result = "running" /\ call' # call
            => /\ call'.created_lots = call.created_lots + 1
               /\ call'.created_lots <= C18_Count
               /\ call'.unhandled_amount < call.unhandled_amount
               /\ (call'.unhandled_amount = 0) <=> (call'.created_lots = C18_Count)]_vars
    /\ [](call.op = "create_collateral_auctions" /\ call.result = "ok" /\ call.amount > 0
            => /\ call.created_lots = C18_Count
               /\ call.created_lots <= Max(1, max_auctions_count))

\* C18 witness: a call returned after as many iterations as max_auctions_count
\* allows, 3.
C18_Witness ==
    /\ call.op = "create_collateral_auctions" /\ call.result = "ok"
    /\ call.created_lots = 3 /\ max_auctions_count = 3 /\ call.unhandled_amount = 0

\* C19: on_system_debit(amount) sets the debit pool to debit_pool + amount when the
\* sum is within the Balance range; else it returns Overflow and the debit pool stays
\* as it was: it neither wraps nor saturates.
C19_CheckedIncrement ==
    [][call'.op = "on_system_debit"
        => IF debit_pool + call'.amount <= MaxBalance
           THEN call'.result = "ok" /\ debit_pool' = debit_pool + call'.amount
           ELSE call'.result = "Overflow" /\ debit_pool' = debit_pool]_vars

\* C19 witness: an on_system_debit overflowed a pool that was below the maximum.
C19_Witness ==
    /\ call.op = "on_system_debit" /\ call.result = "Overflow"
    /\ debit_pool > 0 /\ debit_pool < MaxBalance

\* C20: extract_surplus_to_treasury(amount) from the update origin either moves
\* exactly `amount` of the stable currency from the module account to the treasury
\* account or fails with the ledger's error and moves nothing, and it fails when the
\* module account holds less than `amount`; the total issuance, the debit pool and
\* the collateral balances stay as they were.
C20_ExtractSurplus ==
    [][call'.op = "extract_surplus_to_treasury" /\ call'.result # "BadOrigin"
        => /\ call'.result \in {"ok", "LedgerError"}
           /\ call'.result = "ok"
                => /\ stable'["module"] = stable["module"] - call'.amount
                   /\ stable'["treasury"] = stable["treasury"] + call'.amount
                   /\ stable'["other"] = stable["other"]
           /\ stable["module"] < call'.amount => call'.result = "LedgerError"
           /\ call'.result = "LedgerError" => stable' = stable
           /\ total_issuance(stable') = total_issuance(stable)
           /\ debit_pool' = debit_pool /\ collateral' = collateral]_vars

\* C20 witness: surplus was extracted to the treasury account while debit was in the
\* pool and surplus was left.
C20_Witness ==
    /\ call.op = "extract_surplus_to_treasury" /\ call.result = "ok" /\ call.amount > 0
    /\ stable["treasury"] >= call.amount /\ stable["module"] > 0 /\ debit_pool > 0

\* C21: the total issuance of the stable currency less the debit pool is left as it
\* was by every successful issue_debit with backed = false, by every on_finalize, by
\* deposit_surplus and by extract_surplus_to_treasury; only issue_debit with
\* backed = true, on_system_surplus, burn_debit and on_system_debit change it.
C21_SupplyAccounting ==
    [][LET before == total_issuance(stable) - debit_pool
           after == total_issuance(stable') - debit_pool'
       IN /\ call'.op = "issue_debit_unbacked" /\ call'.result = "ok" => after = before
          /\ call'.op \in {"on_finalize", "deposit_surplus", "extract_surplus_to_treasury"}
                => after = before
          /\ after # before
                => call'.op \in {"issue_debit_backed", "on_system_surplus", "burn_debit", "on_system_debit"}]_vars
====
